---- MODULE Spec2Model ----
(***************************************************************************)
(* Model of the settle_cross_margin instruction of the cross-margin        *)
(* settlement program (programs/solana-cross-margin-settlement/src/lib.rs).*)
(*                                                                         *)
(* The program's integers are i64 (narrow) and i128 (wide, twice as wide). *)
(* The model keeps both as two's-complement ranges of I64Bits and          *)
(* 2 * I64Bits bits, so that every overflow of the checked arithmetic and  *)
(* the overflow of abs() on the minimum value happen exactly where they    *)
(* happen in the program, at a width the model checker can enumerate.      *)
(***************************************************************************)
EXTENDS Integers, Sequences, FiniteSets, TLC

\* Width, in bits, of the narrow signed type of the model (i64 in the program).
I64Bits == 6

\* Width of the wide signed type (i128 in the program): twice the narrow one.
I128Bits == 2 * I64Bits

I64_MAX == 2^(I64Bits - 1) - 1
I64_MIN == -(2^(I64Bits - 1))
I128_MAX == 2^(I128Bits - 1) - 1
I128_MIN == -(2^(I128Bits - 1))

\* 1_000_000 in the program (about 2^20 against 2^63); here scaled with the width.
FUNDING_RATE_DIVISOR == 2^(I64Bits \div 3)

\* const MAX_FUNDING_RATE: i64 = i64::MAX / 1_000_000
MAX_FUNDING_RATE == I64_MAX \div FUNDING_RATE_DIVISOR

----------------------------------------------------------------------------
\* Option<T> of the checked arithmetic: Some(v) or None.
Some(v) == [some |-> TRUE, val |-> v]
None == [some |-> FALSE, val |-> 0]

\* i64::checked_sub
checked_sub_i64(a, b) ==
    IF a - b >= I64_MIN /\ a - b <= I64_MAX THEN Some(a - b) ELSE None

\* i128::checked_mul
checked_mul_i128(a, b) ==
    IF a * b >= I128_MIN /\ a * b <= I128_MAX THEN Some(a * b) ELSE None

\* i128::checked_sub
checked_sub_i128(a, b) ==
    IF a - b >= I128_MIN /\ a - b <= I128_MAX THEN Some(a - b) ELSE None

\* i128::checked_add
checked_add_i128(a, b) ==
    IF a + b >= I128_MIN /\ a + b <= I128_MAX THEN Some(a + b) ELSE None

\* i64::abs. The absolute value of i64::MIN is not an i64: a build with overflow
\* checks panics there, a build without them returns i64::MIN.
i64_abs(x, checks) ==
    IF x = I64_MIN
    THEN [panic |-> checks, val |-> I64_MIN]
    ELSE [panic |-> FALSE, val |-> IF x < 0 THEN -x ELSE x]

----------------------------------------------------------------------------
\* #[error_code] enum SettlementError
SettlementError ==
    {"InvalidOraclePrice", "InvalidEntryPrice", "CalculationOverflow",
     "FundingRateOutOfBounds"}

\* How a call can end: Ok(()), Err(one SettlementError), or a panic of the
\* program (the overflow of abs() in a build with overflow checks).
Outcomes == {"Ok", "Panic"} \cup SettlementError

\* #[event] struct SettlementEvent
SettlementEvent(key, oracle_price, funding_rate, pnl, payment, net, collateral) ==
    [position_key |-> key,
     oracle_price |-> oracle_price,
     funding_rate |-> funding_rate,
     unrealized_pnl |-> pnl,
     funding_payment |-> payment,
     net_settlement |-> net,
     new_collateral |-> collateral]

\* What one call leaves behind: its outcome, the two accounts as stored when it
\* returns, and the events it emitted.
Return(result, position, balance, events) ==
    [result |-> result, position |-> position, balance |-> balance,
     events |-> events]

\* require!(cond, err) failing, or `.ok_or(err)?` on None: the call returns
\* Err(err); nothing has been written to the accounts and nothing emitted.
Reject(err, position, balance) == Return(err, position, balance, <<>>)

\* The program panics: the instruction aborts, no account write was made.
Abort(position, balance) == Return("Panic", position, balance, <<>>)

\* 3. if position.size == 0 { position.last_funding_rate = funding_rate; return Ok(()) }
FlatShortCircuit(position, balance, funding_rate) ==
    Return("Ok", [position EXCEPT !.last_funding_rate = funding_rate],
           balance, <<>>)

\* let price_delta = oracle_price.checked_sub(position.entry_price)
price_delta(oracle_price, position) ==
    checked_sub_i64(oracle_price, position.entry_price)

\* Mutant of unrealized_pnl: the product is taken in the narrow type, wrapping,
\* and widened afterwards.
unrealized_pnl_Narrow(pd, position) ==
    Some(((pd * position.size - I64_MIN) % 2^I64Bits) + I64_MIN)

\* Mutant of unrealized_pnl: the checked product is taken in the narrow type
\* (the widening cast is missing).
unrealized_pnl_CheckedNarrow(pd, position) ==
    IF pd * position.size >= I64_MIN /\ pd * position.size <= I64_MAX
    THEN Some(pd * position.size) ELSE None

\* Mutant of unrealized_pnl: the magnitude of the size is used, not the signed size.
unrealized_pnl_Unsigned(pd, position) ==
    checked_mul_i128(pd, IF position.size < 0 THEN -position.size ELSE position.size)

\* let unrealized_pnl = (price_delta as i128).checked_mul(position.size as i128)
unrealized_pnl(pd, position) == checked_mul_i128(pd, position.size)

\* Mutant of funding_delta: the absolute rate is charged, not the rate's change
\* since the checkpoint.
funding_delta_Absolute(funding_rate, position) == checked_sub_i64(funding_rate, 0)

\* let funding_delta = funding_rate.checked_sub(position.last_funding_rate)
funding_delta(funding_rate, position) ==
    checked_sub_i64(funding_rate, position.last_funding_rate)

\* let funding_payment = (funding_delta as i128).checked_mul(position.size as i128)
funding_payment(fd, position) == checked_mul_i128(fd, position.size)

\* Mutant of net_settlement: the funding payment is added, not subtracted.
net_settlement_Add(pnl, payment) == checked_add_i128(pnl, payment)

\* let net_settlement = unrealized_pnl.checked_sub(funding_payment)
net_settlement(pnl, payment) == checked_sub_i128(pnl, payment)

\* Mutant of new_collateral: a collateral that would go negative is floored at zero.
new_collateral_FloorZero(balance, net) ==
    LET sum == checked_add_i128(balance.collateral, net) IN
    IF sum.some /\ sum.val < 0 THEN Some(0) ELSE sum

\* let new_collateral = balance.collateral.checked_add(net_settlement)
new_collateral(balance, net) == checked_add_i128(balance.collateral, net)

\* Mutant of Commit: the event is built from the balance as it was before the
\* write of the new collateral.
Commit_StaleEvent(position, balance, key, oracle_price, funding_rate, pnl, payment, net, nc) ==
    Return("Ok",
           [position EXCEPT !.entry_price = oracle_price,
                            !.last_funding_rate = funding_rate],
           [balance EXCEPT !.collateral = nc],
           <<SettlementEvent(key, oracle_price, funding_rate, pnl, payment, net,
                             balance.collateral)>>)

\* Mutant of Commit: a settled position is closed (its size is reset).
Commit_ClosesPosition(position, balance, key, oracle_price, funding_rate, pnl, payment, net, nc) ==
    Return("Ok",
           [position EXCEPT !.size = 0,
                            !.entry_price = oracle_price,
                            !.last_funding_rate = funding_rate],
           [balance EXCEPT !.collateral = nc],
           <<SettlementEvent(key, oracle_price, funding_rate, pnl, payment, net, nc)>>)

\* Mutant of Commit: the funding checkpoint is not advanced.
Commit_NoFundingCheckpoint(position, balance, key, oracle_price, funding_rate, pnl, payment, net, nc) ==
    Return("Ok",
           [position EXCEPT !.entry_price = oracle_price],
           [balance EXCEPT !.collateral = nc],
           <<SettlementEvent(key, oracle_price, funding_rate, pnl, payment, net, nc)>>)

\* Mutant of Commit: the price checkpoint is not advanced (no mark-to-market).
Commit_NoMarkToMarket(position, balance, key, oracle_price, funding_rate, pnl, payment, net, nc) ==
    Return("Ok",
           [position EXCEPT !.last_funding_rate = funding_rate],
           [balance EXCEPT !.collateral = nc],
           <<SettlementEvent(key, oracle_price, funding_rate, pnl, payment, net, nc)>>)

\* The three writes and the emit! that end a settlement of an open position.
Commit(position, balance, key, oracle_price, funding_rate, pnl, payment, net, nc) ==
    Return("Ok",
           [position EXCEPT !.entry_price = oracle_price,
                            !.last_funding_rate = funding_rate],
           [balance EXCEPT !.collateral = nc],
           <<SettlementEvent(key, oracle_price, funding_rate, pnl, payment, net, nc)>>)

\* Mutant of ApplyCollateral: a negative new collateral is refused.
ApplyCollateral_RejectNegative(position, balance, key, oracle_price, funding_rate, pnl, payment, net) ==
    LET nc == new_collateral(balance, net) IN
    IF ~nc.some \/ nc.val < 0
    THEN Reject("CalculationOverflow", position, balance)
    ELSE Commit(position, balance, key, oracle_price, funding_rate,
                pnl, payment, net, nc.val)

\* Mutant of ApplyCollateral: the checkpoints are written before the checked
\* addition, so they stay written when it overflows.
ApplyCollateral_CheckpointFirst(position, balance, key, oracle_price, funding_rate, pnl, payment, net) ==
    LET nc == new_collateral(balance, net) IN
    IF ~nc.some
    THEN Reject("CalculationOverflow",
                [position EXCEPT !.entry_price = oracle_price,
                                 !.last_funding_rate = funding_rate],
                balance)
    ELSE Commit(position, balance, key, oracle_price, funding_rate,
                pnl, payment, net, nc.val)

\* The last checked step and the commit: new_collateral, or CalculationOverflow
\* with nothing written.
ApplyCollateral(position, balance, key, oracle_price, funding_rate, pnl, payment, net) ==
    LET nc == new_collateral(balance, net) IN
    IF ~nc.some THEN Reject("CalculationOverflow", position, balance) ELSE
    Commit(position, balance, key, oracle_price, funding_rate,
           pnl, payment, net, nc.val)

\* The calculation stages of settle_cross_margin (from "let price_delta" on),
\* each `?` returning CalculationOverflow at the first None.
Calculate(position, balance, key, oracle_price, funding_rate) ==
    LET pd == price_delta(oracle_price, position) IN
    IF ~pd.some THEN Reject("CalculationOverflow", position, balance) ELSE
    LET pnl == unrealized_pnl(pd.val, position) IN
    IF ~pnl.some THEN Reject("CalculationOverflow", position, balance) ELSE
    LET fd == funding_delta(funding_rate, position) IN
    IF ~fd.some THEN Reject("CalculationOverflow", position, balance) ELSE
    LET payment == funding_payment(fd.val, position) IN
    IF ~payment.some THEN Reject("CalculationOverflow", position, balance) ELSE
    LET net == net_settlement(pnl.val, payment.val) IN
    IF ~net.some THEN Reject("CalculationOverflow", position, balance) ELSE
    ApplyCollateral(position, balance, key, oracle_price, funding_rate,
                    pnl.val, payment.val, net.val)

\* 4. the two require!(x.abs() <= MAX_FUNDING_RATE, FundingRateOutOfBounds),
\* then the calculation.
CheckFundingBounds(position, balance, key, oracle_price, funding_rate, checks) ==
    LET a == i64_abs(funding_rate, checks) IN
    IF a.panic THEN Abort(position, balance) ELSE
    IF ~(a.val <= MAX_FUNDING_RATE)
    THEN Reject("FundingRateOutOfBounds", position, balance) ELSE
    LET b == i64_abs(position.last_funding_rate, checks) IN
    IF b.panic THEN Abort(position, balance) ELSE
    IF ~(b.val <= MAX_FUNDING_RATE)
    THEN Reject("FundingRateOutOfBounds", position, balance) ELSE
    Calculate(position, balance, key, oracle_price, funding_rate)

\* Mutant of settle_cross_margin: the oracle price is not validated.
settle_cross_margin_NoOracleCheck(position, balance, key, oracle_price, funding_rate, checks) ==
    IF ~(position.entry_price > 0)
    THEN Reject("InvalidEntryPrice", position, balance) ELSE
    IF position.size = 0
    THEN FlatShortCircuit(position, balance, funding_rate) ELSE
    CheckFundingBounds(position, balance, key, oracle_price, funding_rate, checks)

\* Mutant of settle_cross_margin: no short-circuit, a flat position runs the
\* whole settlement.
settle_cross_margin_NoShortCircuit(position, balance, key, oracle_price, funding_rate, checks) ==
    IF ~(oracle_price > 0)
    THEN Reject("InvalidOraclePrice", position, balance) ELSE
    IF ~(position.entry_price > 0)
    THEN Reject("InvalidEntryPrice", position, balance) ELSE
    CheckFundingBounds(position, balance, key, oracle_price, funding_rate, checks)

\* pub fn settle_cross_margin(ctx, oracle_price: i64, funding_rate: i64) -> Result<()>
settle_cross_margin(position, balance, key, oracle_price, funding_rate, checks) ==
    IF ~(oracle_price > 0)
    THEN Reject("InvalidOraclePrice", position, balance) ELSE
    IF ~(position.entry_price > 0)
    THEN Reject("InvalidEntryPrice", position, balance) ELSE
    IF position.size = 0
    THEN FlatShortCircuit(position, balance, funding_rate) ELSE
    CheckFundingBounds(position, balance, key, oracle_price, funding_rate, checks)

----------------------------------------------------------------------------
\* The values the model draws account fields and instruction arguments from:
\* the ends of each type, the funding bound and its neighbours, and small
\* values around zero.
Sizes == {I64_MIN, -1, 0, 1, I64_MAX}
EntryPrices == {I64_MIN, 0, 1, I64_MAX}
StoredRates == {I64_MIN, -MAX_FUNDING_RATE, 0, MAX_FUNDING_RATE + 1}
Collaterals == {I128_MIN, -1, 0, I128_MAX - 1}
OraclePrices == {I64_MIN, 0, 1, 2, I64_MAX}
FundingRates == {I64_MIN, -MAX_FUNDING_RATE - 1, -MAX_FUNDING_RATE, 0, 1,
                 MAX_FUNDING_RATE, MAX_FUNDING_RATE + 1}

\* The position accounts of the specification Spec: one position.
Keys == {"posA"}

\* #[account] struct Position
Position == [size : Sizes, entry_price : EntryPrices, last_funding_rate : StoredRates]

\* #[account] struct UserBalance
UserBalance == [collateral : Collaterals]

VARIABLES
    position,         \* the Position accounts, by account key
    balance,          \* the UserBalance account they share
    events,           \* the SettlementEvents emitted by the latest call
    last,             \* the latest call: its accounts, arguments and outcome
    overflow_checks,  \* whether the deployed build has integer overflow checks
    initial,          \* the accounts as they were before the first call
    calls             \* the calls made so far, where each position is settled once

vars == <<position, balance, events, last, overflow_checks, initial, calls>>

\* Before the first call. `resettled` tells whether the call ran on accounts that
\* an earlier call had already changed.
NoCall ==
    [key |-> "none", oracle_price |-> 0, funding_rate |-> 0, result |-> "None",
     resettled |-> FALSE]

Init ==
    /\ position \in [Keys -> Position]
    /\ balance \in UserBalance
    /\ events = <<>>
    /\ last = NoCall
    /\ overflow_checks \in BOOLEAN
    /\ initial = [position |-> position, balance |-> balance]
    /\ calls = <<>>

\* The effect of one settle_cross_margin instruction on the position account
\* `key` and the shared balance.
Call(key, oracle_price, funding_rate) ==
    LET r == settle_cross_margin(position[key], balance, key, oracle_price,
                                 funding_rate, overflow_checks) IN
    /\ position' = [position EXCEPT ![key] = r.position]
    /\ balance' = r.balance
    /\ events' = r.events
    /\ last' = [key |-> key, oracle_price |-> oracle_price,
                funding_rate |-> funding_rate, result |-> r.result,
                resettled |-> (position # initial.position \/ balance # initial.balance)]
    /\ UNCHANGED <<overflow_checks, initial>>

\* One settle_cross_margin instruction, sent at any time on any position.
Settle(key, oracle_price, funding_rate) ==
    /\ Call(key, oracle_price, funding_rate)
    /\ UNCHANGED calls

Next ==
    \E key \in DOMAIN position, oracle_price \in OraclePrices, funding_rate \in FundingRates :
        Settle(key, oracle_price, funding_rate)

Spec == Init /\ [][Next]_vars

----------------------------------------------------------------------------
\* Cross-margin: two position accounts that share the one balance, each settled
\* once, one instruction at a time, in either order.
CrossKeys == {"posA", "posB"}
CrossPosition == [size : {-1, 0, I64_MAX}, entry_price : {0, 2}, last_funding_rate : {0}]
CrossBalance == [collateral : {I128_MIN, 0, I128_MAX - 1}]
CrossOraclePrices == {0, 1, I64_MAX}
CrossFundingRates == {-MAX_FUNDING_RATE, 0, 1, MAX_FUNDING_RATE + 1}

InitCross ==
    /\ position \in [CrossKeys -> CrossPosition]
    /\ balance \in CrossBalance
    /\ events = <<>>
    /\ last = NoCall
    /\ overflow_checks \in BOOLEAN
    /\ initial = [position |-> position, balance |-> balance]
    /\ calls = <<>>

\* One settle_cross_margin instruction on a position that has not been settled
\* yet in this run.
SettleOnce(key, oracle_price, funding_rate) ==
    /\ \A i \in 1..Len(calls) : calls[i].key # key
    /\ Call(key, oracle_price, funding_rate)
    /\ calls' = Append(calls, last')

NextCross ==
    \E key \in DOMAIN position, oracle_price \in CrossOraclePrices,
       funding_rate \in CrossFundingRates :
        SettleOnce(key, oracle_price, funding_rate)

SpecCross == InitCross /\ [][NextCross]_vars

----------------------------------------------------------------------------
\* The position account of the latest call, as stored now.
LastPosition == position[last.key]

\* The latest call, made once more on the accounts as they are now.
Again ==
    settle_cross_margin(LastPosition, balance, last.key, last.oracle_price,
                        last.funding_rate, overflow_checks)

\* The latest call's arguments, applied in one call to the accounts as they were
\* before the first call.
Direct ==
    settle_cross_margin(initial.position[last.key], initial.balance, last.key,
                        last.oracle_price, last.funding_rate, overflow_checks)

\* The absolute value of an integer, as a mathematical integer.
Magnitude(x) == IF x < 0 THEN -x ELSE x

\* The latest call had a funding rate within the bound, on a position whose
\* funding checkpoint was within the bound before the first call.
RatesInBounds ==
    /\ last.result # "None"
    /\ Magnitude(last.funding_rate) <= MAX_FUNDING_RATE
    /\ Magnitude(initial.position[last.key].last_funding_rate) <= MAX_FUNDING_RATE

\* C1: a call of settle_cross_margin that returns one of the four errors leaves
\* every position field and the collateral as they were and emits no event,
\* whatever the stage that raised the error.
C1_FailureChangesNothing ==
    [][last'.result \in SettlementError =>
         /\ position' = position
         /\ balance' = balance
         /\ events' = <<>>]_vars

\* C1 witness: an open position whose settlement passed every validation and every
\* product, and failed at the final checked addition to the collateral.
C1_Witness ==
    /\ RatesInBounds
    /\ last.result = "CalculationOverflow"
    /\ LastPosition.size # 0
    /\ LET pd == price_delta(last.oracle_price, LastPosition)
           fd == funding_delta(last.funding_rate, LastPosition)
       IN /\ pd.some /\ fd.some
          /\ pd.val # 0
          /\ net_settlement(pd.val * LastPosition.size,
                            fd.val * LastPosition.size).some

\* C2: after a successful settlement, the same call made again at once (same
\* oracle_price, same funding_rate) succeeds, finds a zero price delta and a zero
\* funding delta on an open position, and leaves the collateral unchanged.
C2_Idempotent ==
    last.result = "Ok" =>
        /\ Again.result = "Ok"
        /\ Again.balance.collateral = balance.collateral
        /\ LastPosition.size # 0 =>
             /\ price_delta(last.oracle_price, LastPosition) = Some(0)
             /\ funding_delta(last.funding_rate, LastPosition) = Some(0)

\* C2 witness: a successful settlement of an open position that moved the price
\* checkpoint and the collateral.
C2_Witness ==
    /\ RatesInBounds
    /\ last.result = "Ok"
    /\ LastPosition.size # 0
    /\ LastPosition.entry_price # initial.position[last.key].entry_price
    /\ balance.collateral # initial.balance.collateral

\* C3: with the size constant, after any sequence of calls the collateral is the
\* initial collateral plus size * (change of entry_price) minus
\* size * (change of last_funding_rate), as unbounded integers; and the accounts
\* after a successful call are those a single call with the same arguments on the
\* initial accounts produces, when that call succeeds.
C3_NoDoubleCounting ==
    \A k \in DOMAIN position :
        LET now == position[k]
            was == initial.position[k]
        IN (DOMAIN position = {k} /\ now.size = was.size) =>
             /\ balance.collateral =
                    initial.balance.collateral
                    + now.size * (now.entry_price - was.entry_price)
                    - now.size * (now.last_funding_rate - was.last_funding_rate)
             /\ (last.result = "Ok" /\ Direct.result = "Ok") =>
                    /\ Direct.position = now
                    /\ Direct.balance = balance

\* C3 witness: an open position settled successfully after an earlier settlement
\* had already moved its checkpoints, where the single call succeeds too.
C3_Witness ==
    /\ RatesInBounds
    /\ last.result = "Ok"
    /\ last.resettled
    /\ LastPosition.size # 0
    /\ LastPosition.entry_price # initial.position[last.key].entry_price
    /\ LastPosition.last_funding_rate # initial.position[last.key].last_funding_rate
    /\ Direct.result = "Ok"

\* C4 (as claimed): a call with oracle_price > 0 and entry_price > 0 whose
\* funding_rate or stored last_funding_rate exceeds MAX_FUNDING_RATE in magnitude
\* fails with FundingRateOutOfBounds and changes nothing, whatever the size,
\* size = 0 included. Stated here for the rates other than i64::MIN, the one
\* value whose abs() overflows (the subject of C5).
C4_FundingBoundsWhateverSize ==
    [][LET before == position[last'.key] IN
       (/\ last'.oracle_price > 0
        /\ before.entry_price > 0
        /\ last'.funding_rate # I64_MIN
        /\ before.last_funding_rate # I64_MIN
        /\ \/ Magnitude(last'.funding_rate) > MAX_FUNDING_RATE
           \/ Magnitude(before.last_funding_rate) > MAX_FUNDING_RATE)
       => /\ last'.result = "FundingRateOutOfBounds"
          /\ position' = position
          /\ balance' = balance]_vars

\* C5 (as claimed): every call ends in success or in one of the four named
\* errors, and no step traps or wraps: in particular a rate whose magnitude
\* exceeds MAX_FUNDING_RATE never passes the bound check of an open position.
C5_TotalNamedOutcomes ==
    last.result # "None" =>
        /\ last.result \in {"Ok"} \cup SettlementError
        /\ (last.result = "Ok" /\ LastPosition.size # 0) =>
               Magnitude(last.funding_rate) <= MAX_FUNDING_RATE

\* C6: a call on a flat position (size = 0) leaves the collateral, the size and
\* the entry price unchanged and emits no event; the one field it can change is
\* last_funding_rate, which a successful call sets to funding_rate and a failing
\* call leaves alone.
C6_FlatPositionSafety ==
    [][LET before == position[last'.key]
           after == position'[last'.key]
       IN before.size = 0 =>
            /\ balance' = balance
            /\ after.size = before.size
            /\ after.entry_price = before.entry_price
            /\ events' = <<>>
            /\ after.last_funding_rate =
                   IF last'.result = "Ok" THEN last'.funding_rate
                   ELSE before.last_funding_rate]_vars

\* C6 witness: a flat position settled successfully, whose funding checkpoint
\* moved to the call's funding_rate.
C6_Witness ==
    /\ last.result = "Ok"
    /\ LastPosition.size = 0
    /\ LastPosition.last_funding_rate = last.funding_rate
    /\ LastPosition.last_funding_rate # initial.position[last.key].last_funding_rate
    /\ events = <<>>

\* C7: a successful settlement of an open position stores, as an unbounded
\* integer, old collateral + (oracle_price - entry_price) * size
\* - (funding_rate - last_funding_rate) * size, also when a product does not fit
\* the narrow type.
C7_ExactArithmetic ==
    [][LET before == position[last'.key] IN
       (last'.result = "Ok" /\ before.size # 0) =>
           balance'.collateral =
               balance.collateral
               + (last'.oracle_price - before.entry_price) * before.size
               - (last'.funding_rate - before.last_funding_rate) * before.size]_vars

\* C7 witness: a successful settlement whose unrealized PnL exceeds the narrow
\* type's maximum.
C7_Witness ==
    /\ RatesInBounds
    /\ last.result = "Ok"
    /\ LastPosition.size # 0
    /\ events # <<>>
    /\ events[1].unrealized_pnl > I64_MAX
    /\ events[1].funding_payment # 0

\* C8: after a successful settlement of an open position, entry_price is the
\* call's oracle_price and last_funding_rate is the call's funding_rate.
C8_CheckpointAdvance ==
    (last.result = "Ok" /\ LastPosition.size # 0) =>
        /\ LastPosition.entry_price = last.oracle_price
        /\ LastPosition.last_funding_rate = last.funding_rate

\* C8 witness: a successful settlement of an open position that moved both
\* checkpoints away from their previous values.
C8_Witness ==
    /\ RatesInBounds
    /\ last.result = "Ok"
    /\ LastPosition.size # 0
    /\ events # <<>>
    /\ events[1].unrealized_pnl # 0
    /\ events[1].funding_payment # 0
    /\ LastPosition.entry_price = last.oracle_price

\* The same call on the position of opposite size, from the same checkpoints and
\* the same collateral.
Mirrored(pos, bal, key, oracle_price, funding_rate, checks) ==
    settle_cross_margin([pos EXCEPT !.size = -pos.size], bal, key, oracle_price,
                        funding_rate, checks)

\* The two collateral changes of a position and of its mirror image are opposite.
MirrorOpposite(before, bal, after, call, checks) ==
    LET mir == Mirrored(before, bal, call.key, call.oracle_price,
                        call.funding_rate, checks)
    IN (before.size # I64_MIN /\ mir.result = "Ok") =>
           mir.balance.collateral - bal.collateral
               = -(after.collateral - bal.collateral)

\* C9 (as claimed): every successful settlement with oracle_price > entry_price
\* strictly increases the collateral of a long and strictly decreases that of a
\* short, and a position and its mirror image change the collateral by opposite
\* amounts.
C9_SignCorrectnessAnyFunding ==
    [][LET before == position[last'.key] IN
       (last'.result = "Ok" /\ last'.oracle_price > before.entry_price) =>
           /\ before.size > 0 => balance'.collateral > balance.collateral
           /\ before.size < 0 => balance'.collateral < balance.collateral
           /\ MirrorOpposite(before, balance, balance', last', overflow_checks)]_vars

\* C9 (amended): every successful settlement with oracle_price > entry_price and
\* funding_rate = last_funding_rate strictly increases the collateral of a long
\* and strictly decreases that of a short; and for every successful settlement
\* with oracle_price > entry_price a position and its mirror image change the
\* collateral by opposite amounts.
C9_SignCorrectness ==
    [][LET before == position[last'.key] IN
       (last'.result = "Ok" /\ last'.oracle_price > before.entry_price) =>
           /\ last'.funding_rate = before.last_funding_rate =>
                /\ before.size > 0 => balance'.collateral > balance.collateral
                /\ before.size < 0 => balance'.collateral < balance.collateral
           /\ MirrorOpposite(before, balance, balance', last', overflow_checks)]_vars

\* C9 witness: a short settled successfully at a higher price with the funding
\* rate unchanged, whose collateral fell, and whose mirror image settles too.
C9_Witness ==
    /\ RatesInBounds
    /\ last.result = "Ok"
    /\ LastPosition.size < 0
    /\ LastPosition.size # I64_MIN
    /\ events # <<>>
    /\ events[1].funding_payment = 0
    /\ events[1].unrealized_pnl < 0
    /\ ~last.resettled
    /\ balance.collateral < initial.balance.collateral
    /\ Mirrored(initial.position[last.key], initial.balance, last.key,
                last.oracle_price, last.funding_rate, overflow_checks).result = "Ok"

\* C10: a successful settlement with oracle_price = entry_price changes the
\* collateral by -(funding_rate - last_funding_rate) * size: a rise of the rate
\* costs a long and pays a short, a fall does the opposite, and only the change
\* of the rate since the checkpoint counts.
C10_FundingDirection ==
    [][LET before == position[last'.key]
           delta == last'.funding_rate - before.last_funding_rate
       IN (/\ last'.result = "Ok"
           /\ before.size # 0
           /\ last'.oracle_price = before.entry_price)
          => /\ balance'.collateral = balance.collateral - delta * before.size
             /\ events'[1].funding_payment = delta * before.size
             /\ (delta > 0 /\ before.size > 0) => balance'.collateral < balance.collateral
             /\ (delta > 0 /\ before.size < 0) => balance'.collateral > balance.collateral
             /\ (delta < 0 /\ before.size > 0) => balance'.collateral > balance.collateral
             /\ (delta < 0 /\ before.size < 0) => balance'.collateral < balance.collateral]_vars

\* C10 witness: a long settled at an unchanged price after the rate fell to a
\* negative value, which raised its collateral.
C10_Witness ==
    /\ RatesInBounds
    /\ last.result = "Ok"
    /\ LastPosition.size > 0
    /\ last.funding_rate < 0
    /\ events # <<>>
    /\ events[1].unrealized_pnl = 0
    /\ events[1].funding_payment < 0
    /\ events[1].net_settlement > 0

\* C11: a successful settlement of an open position emits exactly one
\* SettlementEvent, which carries the call's oracle_price and funding_rate, has
\* net_settlement = unrealized_pnl - funding_payment and new_collateral equal to
\* the collateral the call stored; the flat short-circuit and every failing call
\* emit none.
C11_OneEventPerSettlement ==
    last.result # "None" =>
        IF last.result = "Ok" /\ LastPosition.size # 0
        THEN /\ Len(events) = 1
             /\ events[1].position_key = last.key
             /\ events[1].oracle_price = last.oracle_price
             /\ events[1].funding_rate = last.funding_rate
             /\ events[1].net_settlement =
                    events[1].unrealized_pnl - events[1].funding_payment
             /\ events[1].new_collateral = balance.collateral
        ELSE events = <<>>

\* C11 witness: a successful settlement of an open position with a PnL, a funding
\* payment and a net settlement that are all non-zero and all different.
C11_Witness ==
    /\ RatesInBounds
    /\ last.result = "Ok"
    /\ LastPosition.size # 0
    /\ Len(events) = 1
    /\ events[1].unrealized_pnl # 0
    /\ events[1].funding_payment # 0
    /\ events[1].net_settlement # 0
    /\ events[1].net_settlement # events[1].unrealized_pnl

\* C12: no sequence of calls, successful or failing, on a flat or an open
\* position, changes position.size.
C12_SizeNeverChanges ==
    \A k \in DOMAIN position : position[k].size = initial.position[k].size

\* C12 witness: an open position that was settled successfully more than once,
\* with its collateral moved.
C12_Witness ==
    /\ RatesInBounds
    /\ last.result = "Ok"
    /\ last.resettled
    /\ LastPosition.size # 0
    /\ balance.collateral # initial.balance.collateral
    /\ events # <<>>
    /\ events[1].net_settlement # 0

\* C13: a settlement of an open position with valid prices and rates whose
\* arithmetic stays in range succeeds and stores old collateral + net settlement,
\* whatever the sign of the old and of the new collateral.
C13_NegativeCollateralAccepted ==
    [][LET before == position[last'.key]
           net == (last'.oracle_price - before.entry_price) * before.size
                  - (last'.funding_rate - before.last_funding_rate) * before.size
       IN (/\ last'.oracle_price > 0
           /\ before.entry_price > 0
           /\ before.size # 0
           /\ Magnitude(last'.funding_rate) <= MAX_FUNDING_RATE
           /\ Magnitude(before.last_funding_rate) <= MAX_FUNDING_RATE
           /\ balance.collateral + net >= I128_MIN
           /\ balance.collateral + net <= I128_MAX)
          => /\ last'.result = "Ok"
             /\ balance'.collateral = balance.collateral + net]_vars

\* C13 witness: a balance that was already negative, settled successfully to a
\* still lower negative collateral.
C13_Witness ==
    /\ RatesInBounds
    /\ last.result = "Ok"
    /\ LastPosition.size # 0
    /\ initial.balance.collateral < 0
    /\ initial.balance.collateral > I128_MIN
    /\ balance.collateral < initial.balance.collateral

\* The call `c`, sent on the position `pos` and the balance `bal`.
Sent(pos, bal, c) ==
    settle_cross_margin(pos, bal, c.key, c.oracle_price, c.funding_rate,
                        overflow_checks)

\* The net settlement of the call `c` on the position `pos`, as an unbounded
\* integer (zero for a flat position).
NetOf(pos, c) ==
    (c.oracle_price - pos.entry_price) * pos.size
    - (c.funding_rate - pos.last_funding_rate) * pos.size

\* The call `c` on `pos` and `bal` fails at the checked addition of its net
\* settlement to the collateral: it overflows, and would not on a zero balance.
FailsAtAddition(pos, bal, c) ==
    /\ Sent(pos, bal, c).result = "CalculationOverflow"
    /\ Sent(pos, [bal EXCEPT !.collateral = 0], c).result = "Ok"

\* The two calls of a cross-margin run in the order they were made, and in the
\* other order, from the same initial accounts.
FirstCall == Sent(initial.position[calls[1].key], initial.balance, calls[1])
SecondCall == Sent(initial.position[calls[2].key], FirstCall.balance, calls[2])
SwappedFirst == Sent(initial.position[calls[2].key], initial.balance, calls[2])
SwappedSecond == Sent(initial.position[calls[1].key], SwappedFirst.balance, calls[1])

\* The outcome of each call and the final collateral do not depend on the order,
\* and the final collateral is the initial one plus the net settlements of the
\* calls that succeeded.
OrderIndependent ==
    /\ calls[1].result = SwappedSecond.result
    /\ calls[2].result = SwappedFirst.result
    /\ balance = SwappedSecond.balance
    /\ balance.collateral =
           initial.balance.collateral
           + (IF calls[1].result = "Ok"
              THEN NetOf(initial.position[calls[1].key], calls[1]) ELSE 0)
           + (IF calls[2].result = "Ok"
              THEN NetOf(initial.position[calls[2].key], calls[2]) ELSE 0)

\* C14 (as claimed): when two positions sharing one balance are each settled
\* once, the outcome of each call and the final collateral are the same
\* whichever call runs first, and the final collateral is the initial one plus
\* the net settlements of the calls that succeeded.
C14_OrderIndependentAlways ==
    Len(calls) = 2 => OrderIndependent

\* C14 (amended): the same, provided that in neither order a call fails at the
\* checked addition of its net settlement to the collateral.
C14_OrderIndependent ==
    (/\ Len(calls) = 2
     /\ ~FailsAtAddition(initial.position[calls[1].key], initial.balance, calls[1])
     /\ ~FailsAtAddition(initial.position[calls[2].key], FirstCall.balance, calls[2])
     /\ ~FailsAtAddition(initial.position[calls[2].key], initial.balance, calls[2])
     /\ ~FailsAtAddition(initial.position[calls[1].key], SwappedFirst.balance, calls[1]))
    => OrderIndependent

\* C14 witness: two open positions on one balance, both settled successfully
\* with net settlements of opposite sign.
C14_Witness ==
    /\ Len(calls) = 2
    /\ calls[1].result = "Ok"
    /\ calls[2].result = "Ok"
    /\ NetOf(initial.position[calls[1].key], calls[1]) > 0
    /\ NetOf(initial.position[calls[2].key], calls[2]) < 0
    /\ SwappedFirst.result = "Ok"
    /\ SwappedSecond.result = "Ok"

\* C15 (as claimed): a position whose last_funding_rate was within
\* MAX_FUNDING_RATE in magnitude before the first call keeps it within that bound
\* after any sequence of calls. Stated here for the stored rates other than
\* i64::MIN, the one value whose abs() overflows (the subject of C5).
C15_CheckpointStaysInBounds ==
    \A k \in DOMAIN position :
        Magnitude(initial.position[k].last_funding_rate) <= MAX_FUNDING_RATE =>
            \/ position[k].last_funding_rate = I64_MIN
            \/ Magnitude(position[k].last_funding_rate) <= MAX_FUNDING_RATE

\* The error the stage order names for a call: the first check, in the order
\* oracle price, entry price, funding bounds, that the call violates.
FirstViolation(pos, call) ==
    IF ~(call.oracle_price > 0) THEN "InvalidOraclePrice"
    ELSE IF ~(pos.entry_price > 0) THEN "InvalidEntryPrice"
    ELSE IF \/ Magnitude(call.funding_rate) > MAX_FUNDING_RATE
            \/ Magnitude(pos.last_funding_rate) > MAX_FUNDING_RATE
         THEN "FundingRateOutOfBounds"
    ELSE "Valid"

\* C16 (as claimed): a call that violates one or several validation checks
\* reports the first that applies in the order InvalidOraclePrice,
\* InvalidEntryPrice, FundingRateOutOfBounds; CalculationOverflow is reported
\* only for calls that pass validation.
C16_ErrorPrecedence ==
    [][LET expected == FirstViolation(position[last'.key], last') IN
       /\ expected # "Valid" => last'.result = expected
       /\ last'.result = "CalculationOverflow" => expected = "Valid"]_vars

\* C17: in a call with oracle_price > 0, entry_price > 0 and both funding rates
\* within MAX_FUNDING_RATE, the two checked subtractions of the narrow type, the
\* two wide products and the net settlement never overflow, whatever the size;
\* the call returns CalculationOverflow exactly when old collateral + net
\* settlement is outside the wide type.
C17_OnlyTheAdditionOverflows ==
    [][LET before == position[last'.key]
           pd == price_delta(last'.oracle_price, before)
           fd == funding_delta(last'.funding_rate, before)
           pnl == unrealized_pnl(pd.val, before)
           payment == funding_payment(fd.val, before)
           net == net_settlement(pnl.val, payment.val)
       IN FirstViolation(before, last') = "Valid" =>
            /\ pd.some
            /\ fd.some
            /\ pnl.some
            /\ payment.some
            /\ net.some
            /\ last'.result = "CalculationOverflow" <=>
                   \/ balance.collateral + net.val < I128_MIN
                   \/ balance.collateral + net.val > I128_MAX]_vars

\* C17 witness: a valid call on a position of the most negative size, with the
\* largest price rise and a funding payment, rejected at the addition.
C17_Witness ==
    /\ RatesInBounds
    /\ last.result = "CalculationOverflow"
    /\ ~last.resettled
    /\ LastPosition.size = I64_MIN
    /\ last.oracle_price = I64_MAX
    /\ last.funding_rate # LastPosition.last_funding_rate

\* C18: a position whose entry_price was positive before the first call keeps a
\* positive entry_price after any sequence of calls, whatever the oracle prices.
C18_EntryPriceStaysPositive ==
    \A k \in DOMAIN position :
        initial.position[k].entry_price > 0 => position[k].entry_price > 0

\* C18 witness: an open position whose price checkpoint a settlement has moved,
\* and which then refused a call with a non-positive oracle price.
C18_Witness ==
    /\ last.result = "InvalidOraclePrice"
    /\ last.oracle_price < 0
    /\ last.resettled
    /\ LastPosition.size # 0
    /\ LastPosition.entry_price # initial.position[last.key].entry_price
    /\ LastPosition.entry_price > 0

====
